---- MODULE Spec2Model ----
(***************************************************************************)
(* Genre resolution engine of sm-metadata-editor-thing.                    *)
(*                                                                         *)
(* GenreSearch (src/genre_search/genre_search.py) consults the configured  *)
(* providers in search_order, memoizes their answers in a cache that is    *)
(* written through to a JSON file, and returns the concatenated genre      *)
(* paths.  GenreSearchThread.__init__ (genre_search_thread.py) builds one  *)
(* GenreSearch per search run from the sources ticked in the dialog and    *)
(* the API keys of the configuration.                                      *)
(*                                                                         *)
(* The providers themselves (fuzzytrackmatch, the remote services) are the *)
(* environment: each fetch_track_genres call answers with a match, with    *)
(* no match, or raises.                                                    *)
(*                                                                         *)
(* Conventions: a Python str is a TLA+ string; a GenreTag is a record      *)
(* [name, score]; a genre path is a sequence of tags; match scores and the *)
(* similarity threshold are in hundredths (0.65 is 65); Python's None for  *)
(* the subtitle is the reserved string NoneStr.                            *)
(*                                                                         *)
(* Four specifications share the engine's actions.  Spec is the engine     *)
(* under any caller, with a cache file that can be read and written.       *)
(* SpecIO adds reads and writes of the file that fail.  SpecRoundTrip      *)
(* saves and loads caches drawn from a pool.  SpecBatch is one search run  *)
(* of the dialog: GenreSearchThread.run over a batch of songs, cancel()    *)
(* from the GUI thread, and the dialog's slots handling the emitted        *)
(* signals in order.  There the lists of paths are kept as references to   *)
(* the path objects the cache holds, since get_genres hands out the        *)
(* cache's own objects.  The dialog builds the thread with                 *)
(* check_audio_files left False, so the audio-file part of                 *)
(* _do_search_for_simfile (lines 91-107) does not run.                     *)
(*                                                                         *)
(* The options object is taken to carry similarity_threshold, as           *)
(* get_genres (line 54) reads it and _setup_genre_search (line 46) passes  *)
(* it; one behaviour keeps one configuration (ticked sources and API keys) *)
(* over all its search runs.                                               *)
(***************************************************************************)
EXTENDS Integers, Sequences, FiniteSets, TLC

\* ---------------------------------------------------------------- bounds

\* get_genres calls in one behaviour
MaxCalls == 2

\* songs in the batch of one search run
NumSongs == 3

\* ------------------------------------------------------------- constants

\* ConfigManager.DEFAULT_CONFIG[SIMILARITY_THRESH] = 0.65, in hundredths
SimilarityThreshold == 65

NoneStr == "<None>"

Providers == {"lastfm", "discogs", "animethemes"}

\* ------------------------------------------------------------ data model

Tag(n, s) == [name |-> n, score |-> s]

\* genre paths (root first) the canonical-taxonomy providers answer with
PathDance == <<Tag("Electronic", 3), Tag("Dance", 2)>>
PathPop == <<Tag("Pop", 1)>>

\* canonicalized_genres of a match of provider p: a list of paths (possibly empty)
CanonLists(p) == IF p = "lastfm" THEN { <<>>, <<PathDance>> }
                 ELSE { <<>>, <<PathDance, PathPop>> }

\* AnimeThemesSearch._get_genre_tags_from_track
AnimeTag == Tag("Anime", 0)

\* match scores the environment answers with: just below and at the threshold
Scores == {SimilarityThreshold - 1, SimilarityThreshold}

\* what one fetch_track_genres call can do
NoMatch == [kind |-> "none",  score |-> 0, canon |-> <<>>, genres |-> <<>>]
Raises  == [kind |-> "error", score |-> 0, canon |-> <<>>, genres |-> <<>>]

Matches(p) ==
    IF p = "animethemes"
    THEN { [kind |-> "match", score |-> s, canon |-> <<>>, genres |-> g] :
             s \in Scores, g \in {<<>>, <<AnimeTag>>} }
    ELSE { [kind |-> "match", score |-> s, canon |-> c, genres |-> <<>>] :
             s \in Scores, c \in CanonLists(p) }

Responses(p) == {NoMatch, Raises} \cup Matches(p)

\* the (artist, title, subtitle) triples the caller asks for
Query(a, t, s) == [artist |-> a, title |-> t, subtitle |-> s]

\* the empty input get_genres("", "", None)
EmptyQuery == Query("", "", NoneStr)

Queries == { Query("x|y", "z", ""),
             EmptyQuery }

\* ---------------------------------------------------------- configuration

RECURSIVE Perms(_)
Perms(S) == IF S = {} THEN {<<>>}
            ELSE UNION { { <<x>> \o q : q \in Perms(S \ {x}) } : x \in S }

\* the sources ticked in the dialog, in dialog order (no duplicates)
SourceLists == UNION { Perms(S) : S \in SUBSET Providers }

Configs == [sources : SourceLists, lastfm_api_key : BOOLEAN, discogs_api_key : BOOLEAN]

\* ------------------------------------------------------- pure operations

Remove(seq, x) ==
    LET i == CHOOSE i \in 1..Len(seq) : seq[i] = x /\ \A j \in 1..(i-1) : seq[j] # x
    IN  SubSeq(seq, 1, i-1) \o SubSeq(seq, i+1, Len(seq))

InSeq(x, seq) == \E i \in 1..Len(seq) : seq[i] = x

\* the bug of leaving animethemes where the caller put it
MoveFallbackLast_Keep(api_search_sources) == api_search_sources

\* GenreSearchThread.__init__: move animethemes to the end
MoveFallbackLast(api_search_sources) ==
    IF InSeq("animethemes", api_search_sources)
    THEN Append(Remove(api_search_sources, "animethemes"), "animethemes")
    ELSE api_search_sources

\* GenreSearch._setup_searchers: search_order
SetupSearchOrder(api_search_order) ==
    IF api_search_order # <<>> THEN api_search_order ELSE <<"lastfm", "discogs">>

\* GenreSearch._setup_searchers: the keys of self.searchers
SetupSearchers(order, lastfm_api_key, discogs_api_key) ==
    { p \in Providers :
        /\ InSeq(p, order)
        /\ \/ p = "lastfm" /\ lastfm_api_key
           \/ p = "discogs" /\ discogs_api_key
           \/ p = "animethemes" }

\* subtitle or ''
OrEmpty(s) == IF s = NoneStr \/ s = "" THEN "" ELSE s

\* cache_key = f"{artist}|{title}|{subtitle or ''}"
CacheKey(q) == q.artist \o "|" \o q.title \o "|" \o OrEmpty(q.subtitle)

\* the bug of testing the cached list for truth: an empty list counts as a miss
GetFromCache_EmptyIsMiss(c, cache_key, source) ==
    IF cache_key \in DOMAIN c /\ source \in DOMAIN c[cache_key]
       /\ Len(c[cache_key][source]) > 0
    THEN [hit |-> TRUE, val |-> c[cache_key][source]]
    ELSE [hit |-> FALSE, val |-> <<>>]

\* GenreSearch._get_from_cache; hit = FALSE is the None result
GetFromCache(c, cache_key, source) ==
    IF cache_key \in DOMAIN c /\ source \in DOMAIN c[cache_key]
    THEN [hit |-> TRUE, val |-> c[cache_key][source]]
    ELSE [hit |-> FALSE, val |-> <<>>]

\* the bug of not keeping the entry
AddToCache_NoStore(c, cache_key, genres, source) == c

\* GenreSearch._add_to_cache
AddToCache(c, cache_key, genres, source) ==
    LET obj == IF cache_key \in DOMAIN c THEN c[cache_key] ELSE <<>>
        newobj == [s \in DOMAIN obj \cup {source} |->
                     IF s = source THEN genres ELSE obj[s]]
    IN  [k \in DOMAIN c \cup {cache_key} |-> IF k = cache_key THEN newobj ELSE c[k]]

\* g.__dict__ as json.dump writes it: an object with members name and score
TagToDict(g) == << <<"name", g.name>>, <<"score", g.score>> >>

Member(d, key) == d[CHOOSE i \in 1..Len(d) : d[i][1] = key][2]

\* GenreTag.from_dict
TagFromDict(d) == [name |-> Member(d, "name"), score |-> Member(d, "score")]

\* the bug of writing only the sources that have paths
CacheAsDicts_SkipEmpty(c) ==
    [k \in DOMAIN c |->
       [s \in {t \in DOMAIN c[k] : Len(c[k][t]) > 0} |->
          [i \in 1..Len(c[k][s]) |->
             [j \in 1..Len(c[k][s][i]) |-> <<<<"name", c[k][s][i][j].name>>,
                                              <<"score", c[k][s][i][j].score>>>>]]]]

\* GenreSearch._cache_as_dicts
CacheAsDicts(c) ==
    [k \in DOMAIN c |->
       [s \in DOMAIN c[k] |->
          [i \in 1..Len(c[k][s]) |->
             [j \in 1..Len(c[k][s][i]) |-> TagToDict(c[k][s][i][j])]]]]

\* the bug of leaving out the paths without tags
RebuildCache_DropEmptyPaths(doc) ==
    [k \in DOMAIN doc |->
       [s \in DOMAIN doc[k] |->
          SelectSeq([i \in 1..Len(doc[k][s]) |->
                       [j \in 1..Len(doc[k][s][i]) |-> TagFromDict(doc[k][s][i][j])]],
                    LAMBDA path : Len(path) > 0)]]

\* GenreSearch._load_cache: the rebuilt cache of a parsed document
RebuildCache(doc) ==
    [k \in DOMAIN doc |->
       [s \in DOMAIN doc[k] |->
          [i \in 1..Len(doc[k][s]) |->
             [j \in 1..Len(doc[k][s][i]) |-> TagFromDict(doc[k][s][i][j])]]]]

\* the cache file: absent, or holding text.  doc is the part of the text that
\* _load_cache can parse and rebuild; readable tells whether the whole text is
\* such a part, so that json.load and the rebuilding loop run to the end.
NoFile == [exists |-> FALSE, readable |-> FALSE, doc |-> <<>>]
File(doc) == [exists |-> TRUE, readable |-> TRUE, doc |-> doc]

\* a file opened for writing (truncated) whose json.dump did not finish
Truncated == [exists |-> TRUE, readable |-> FALSE, doc |-> <<>>]

\* how reading the file goes: to the end, or with an OSError
LoadOutcomes == {"ok", "oserror"}

\* how writing the file goes: to the end; mkdir or open raises; json.dump raises
SaveOutcomes == {"ok", "unwritten", "truncated"}

\* the bug of assigning self.cache entry by entry while parsing
LoadCacheHow_KeepPartial(file, how) ==
    IF file.exists /\ how = "ok" THEN RebuildCache(file.doc) ELSE <<>>

\* GenreSearch._load_cache: self.cache is assigned after the last entry was
\* rebuilt (line 123); an exception before that leaves the {} of __init__
LoadCacheHow(file, how) ==
    IF file.exists /\ file.readable /\ how = "ok" THEN RebuildCache(file.doc) ELSE <<>>

\* GenreSearch._load_cache when reading meets no OSError
LoadCache(file) == LoadCacheHow(file, "ok")

\* GenreSearch._save_cache when writing succeeds
SaveCache(c) == File(CacheAsDicts(c))

\* GenreSearch._save_cache: the file afterwards
SaveCacheHow(c, file, how) ==
    CASE how = "ok"        -> SaveCache(c)
      [] how = "unwritten" -> file
      [] how = "truncated" -> Truncated

\* the bug of letting the exception of a failed save leave get_genres
AfterSave_Propagates(how, position) == IF how = "ok" THEN position ELSE "raised"

\* GenreSearch._save_cache lines 150-151: the exception is printed, get_genres goes on
AfterSave(how, position) == position

\* the bug of a reversed comparison
BelowThreshold_Reversed(match_score) == match_score > SimilarityThreshold

\* the comparison of get_genres line 54
BelowThreshold(match_score) == match_score < SimilarityThreshold

\* get_genres lines 59-62: the paths taken from an accepted match
ReturnedGenres(search_option, resp) ==
    IF search_option = "animethemes" /\ Len(resp.genres) > 0
    THEN << <<resp.genres[1]>> >>
    ELSE resp.canon

\* the bug of never skipping the fallback provider
SkipFallback_Never(search_option, genres) == FALSE

\* the bug of skipping the fallback provider only from the second path on
SkipFallback_OffByOne(search_option, genres) ==
    search_option = "animethemes" /\ Len(genres) > 1

\* get_genres line 34: the fallback provider is skipped once there are results
SkipFallback(search_option, genres) ==
    search_option = "animethemes" /\ Len(genres) > 0

\* get_genres lines 50-56: a match whose paths are taken
Accepted(resp) == resp.kind = "match" /\ ~BelowThreshold(resp.score)

\* the bug of memoizing a rejected match as a confirmed negative
FetchCache_MemoizeRejected(c, key, search_option, resp) ==
    CASE resp.kind = "error" -> c
      [] resp.kind = "none"  -> AddToCache(c, key, <<>>, search_option)
      [] resp.kind = "match" ->
           IF BelowThreshold(resp.score) THEN AddToCache(c, key, <<>>, search_option)
           ELSE AddToCache(c, key, ReturnedGenres(search_option, resp), search_option)

\* get_genres lines 47-73: the cache after the provider answered resp
FetchCache(c, key, search_option, resp) ==
    CASE resp.kind = "error" -> c
      [] resp.kind = "none"  -> AddToCache(c, key, <<>>, search_option)
      [] resp.kind = "match" ->
           IF BelowThreshold(resp.score) THEN c
           ELSE AddToCache(c, key, ReturnedGenres(search_option, resp), search_option)

\* the bug of replacing the earlier providers' paths
FetchGenres_Replace(genres, search_option, resp) ==
    IF Accepted(resp) THEN ReturnedGenres(search_option, resp) ELSE genres

\* get_genres lines 47-73: the list genres after the provider answered resp
FetchGenres(genres, search_option, resp) ==
    IF Accepted(resp) THEN genres \o ReturnedGenres(search_option, resp) ELSE genres


\* ------------------------------------------------------------------ state

VARIABLES
    config,        \* the sources ticked in the dialog and the API keys in force
    search_order,  \* GenreSearch.search_order
    searchers,     \* the keys of GenreSearch.searchers
    cache,         \* GenreSearch.cache: key -> provider -> list of paths
    disk,          \* the cache file
    pc,            \* "idle" | "loop" | "returned" | "raised": position of get_genres
    query,         \* the triple of the running (or last) get_genres call
    idx,           \* position of the for loop of get_genres in search_order (1-based)
    genres,        \* the local list genres of get_genres; the result once returned
    origin,        \* history: origin[i] is the provider that contributed genres[i]
    consulted,     \* history: providers looked up (cache or fetch) in this call
    ncalls,        \* history: fetch_track_genres calls made in this call
    errored,       \* history: providers whose fetch_track_genres raised in this call
    rejected,      \* history: providers that matched below the threshold in this call
    prev,          \* history: per triple, the last completed call of this session
    retry,         \* history: (key, provider) whose last outcome was not memoized
    ev,            \* history: the step just taken and the provider's answer
    before,        \* history: prev[query] as it was when the running call started
    nstarted,      \* get_genres calls started so far
    given,         \* history: the input an operation under study was given
    outcome,       \* history: what that operation made of it
    simfiles,      \* GenreSearchThread.simfiles: the batch
    tpc,           \* position of GenreSearchThread.run
    row,           \* idx of the for loop of run (0-based, as in the code)
    cancelled,     \* GenreSearchThread._cancelled
    result,        \* the list result of _do_search_for_simfile, as path objects
    events,        \* the signals run has emitted, oldest first
    handled,       \* how many of them the dialog's slots have handled
    dialog,        \* the progress bar and the buttons of the dialog
    combo,         \* the "New Genre" dropdown of each table row
    seen,          \* history: Len(events) when run read _cancelled as True, or -1
    cancel_at      \* history: result events emitted when cancel() was called, or -1

thread_vars == <<simfiles, tpc, row, cancelled, result, events, seen, cancel_at>>

dialog_vars == <<handled, dialog, combo>>

\* the variables the engine does not touch
other_vars == <<given, outcome, thread_vars, dialog_vars>>

engine_vars == <<config, search_order, searchers, cache, disk, pc, query, idx, genres,
                 origin, consulted, ncalls, errored, rejected, prev, retry, ev, before,
                 nstarted>>

vars == <<engine_vars, other_vars>>

\* the step just taken; for a fetch, what the provider did and its match score
Event(kind, p, resp, retried) ==
    [kind |-> kind, p |-> p, outcome |-> resp.kind, score |-> resp.score,
     npaths |-> Len(ReturnedGenres(p, resp)), retried |-> retried,
     load |-> "none", save |-> "none"]

Nothing == <<>>

\* the answers the engine is to leave retryable: an error, a match below the threshold
Retryable(resp) ==
    resp.kind = "error" \/ (resp.kind = "match" /\ resp.score < SimilarityThreshold)

NotCalled == [called |-> FALSE, result |-> <<>>, clean |-> FALSE]

AnyQuery == Query("x|y", "z", "")

\* every triple a caller of get_genres asks for: those of Queries, the first of
\* them with None for the subtitle, and a triple whose artist and title differ
\* from it but join to the same text
AllQueries == Queries \cup { Query("x|y", "z", NoneStr), Query("x", "y|z", "") }

\* GenreSearchThread.__init__ (lines 31-34) and GenreSearch._setup_searchers (line 79)
SearchOrderOf(cfg) == SetupSearchOrder(MoveFallbackLast(cfg.sources))

\* GenreSearchThread.__init__ and GenreSearch.__init__ for configuration cfg,
\* with no cache file yet and c as the in-memory cache
Setup(cfg, c) ==
    /\ disk = NoFile
    /\ config = cfg
    /\ cache = c
    /\ search_order = SearchOrderOf(config)
    /\ searchers = SetupSearchers(search_order, config.lastfm_api_key, config.discogs_api_key)
    /\ pc = "idle"
    /\ query = AnyQuery
    /\ idx = 1
    /\ genres = <<>>
    /\ origin = <<>>
    /\ consulted = <<>>
    /\ ncalls = 0
    /\ errored = {}
    /\ rejected = {}
    /\ prev = [q \in AllQueries |-> NotCalled]
    /\ retry = {}
    /\ before = NotCalled
    /\ nstarted = 0
    /\ ev = Event("new", "", NoMatch, FALSE)

\* no dialog is open and no search thread exists
NoThread ==
    /\ simfiles = <<>>
    /\ tpc = "none"
    /\ row = 0
    /\ cancelled = FALSE
    /\ result = <<>>
    /\ events = <<>>
    /\ handled = 0
    /\ dialog = Nothing
    /\ combo = <<>>
    /\ seen = -1
    /\ cancel_at = -1

Init ==
    /\ \E cfg \in Configs : Setup(cfg, LoadCache(NoFile))
    /\ given = Nothing
    /\ outcome = Nothing
    /\ NoThread

\* a new GenreSearchThread and GenreSearch, the cache file kept
\* (GenreSearchThread.__init__, GenreSearch.__init__ with the same settings)
Rebuild(how) ==
    /\ cache' = LoadCacheHow(disk, how)
    /\ search_order' = SearchOrderOf(config)
    /\ searchers' = SetupSearchers(search_order', config.lastfm_api_key, config.discogs_api_key)
    /\ pc' = "idle"
    /\ query' = AnyQuery
    /\ idx' = 1
    /\ genres' = <<>>
    /\ origin' = <<>>
    /\ consulted' = <<>>
    /\ ncalls' = 0
    /\ errored' = {}
    /\ rejected' = {}
    /\ prev' = [q \in AllQueries |-> NotCalled]
    /\ before' = NotCalled
    /\ ev' = [Event("new", "", NoMatch, FALSE) EXCEPT !.load = how]
    /\ UNCHANGED <<config, disk, retry, nstarted>>

\* between two get_genres calls the engine is built anew
NewSessionLoad(how) ==
    /\ pc \in {"returned", "raised"}
    /\ Rebuild(how)
    /\ UNCHANGED other_vars

\* a new search run whose reading of the cache file meets no OSError
NewSession == NewSessionLoad("ok")

\* get_genres lines 26-29
GetGenresOf(q) ==
    /\ pc \in {"idle", "returned"}
    /\ query' = q /\ before' = prev[q]
    /\ pc' = "loop"
    /\ idx' = 1
    /\ genres' = <<>>
    /\ origin' = <<>>
    /\ consulted' = <<>>
    /\ ncalls' = 0
    /\ errored' = {}
    /\ rejected' = {}
    /\ nstarted' = nstarted + 1
    /\ ev' = Event("call", "", NoMatch, FALSE)
    /\ UNCHANGED <<config, search_order, searchers, cache, disk, prev, retry>>

\* a caller asks for one of the triples
GetGenres ==
    /\ nstarted < MaxCalls
    /\ \E q \in Queries : GetGenresOf(q)
    /\ UNCHANGED other_vars

InLoop == pc = "loop" /\ idx <= Len(search_order)

search_option == search_order[idx]

cache_key == CacheKey(query)

\* get_genres lines 34-35
SkipStep ==
    /\ InLoop
    /\ SkipFallback(search_option, genres)
    /\ idx' = idx + 1
    /\ ev' = Event("skip", search_option, NoMatch, FALSE)
    /\ UNCHANGED <<config, search_order, searchers, cache, disk, pc, query, genres,
                   origin, consulted, ncalls, errored, rejected, prev, retry, before, nstarted, other_vars>>

\* get_genres lines 38-43
CacheHitStep ==
    /\ InLoop
    /\ ~SkipFallback(search_option, genres)
    /\ LET cached_genres == GetFromCache(cache, cache_key, search_option)
       IN  /\ cached_genres.hit
           /\ genres' = genres \o cached_genres.val
           /\ origin' = origin \o [i \in 1..Len(cached_genres.val) |-> search_option]
    /\ consulted' = Append(consulted, search_option)
    /\ idx' = idx + 1
    /\ ev' = Event("hit", search_option, NoMatch, FALSE)
    /\ UNCHANGED <<config, search_order, searchers, cache, disk, pc, query,
                   ncalls, errored, rejected, prev, retry, before, nstarted, other_vars>>

\* get_genres line 45 when the provider has no searcher: KeyError leaves get_genres
KeyErrorStep ==
    /\ InLoop
    /\ ~SkipFallback(search_option, genres)
    /\ ~GetFromCache(cache, cache_key, search_option).hit
    /\ search_option \notin searchers
    /\ pc' = "raised"
    /\ consulted' = Append(consulted, search_option)
    /\ ev' = Event("keyerror", search_option, NoMatch, FALSE)
    /\ UNCHANGED <<config, search_order, searchers, cache, disk, query, idx, genres,
                   origin, ncalls, errored, rejected, prev, retry, before, nstarted, other_vars>>

\* get_genres lines 45-73: the provider is called and answers resp
FetchStepSave(how) ==
    /\ InLoop
    /\ ~SkipFallback(search_option, genres)
    /\ ~GetFromCache(cache, cache_key, search_option).hit
    /\ search_option \in searchers
    /\ \E resp \in Responses(search_option) :
         /\ ev' = [Event("fetch", search_option, resp, <<cache_key, search_option>> \in retry)
                      EXCEPT !.save = IF Accepted(resp) THEN how ELSE "none"]
         /\ cache' = FetchCache(cache, cache_key, search_option, resp)
         /\ genres' = FetchGenres(genres, search_option, resp)
         /\ origin' = origin \o [i \in 1..(Len(genres') - Len(genres)) |-> search_option]
         \* line 65: _save_cache after an accepted match
         /\ disk' = IF Accepted(resp) THEN SaveCacheHow(cache', disk, how) ELSE disk
         /\ pc' = IF Accepted(resp) THEN AfterSave(how, "loop") ELSE "loop"
         /\ errored' = IF resp.kind = "error" THEN errored \cup {search_option} ELSE errored
         /\ rejected' = IF resp.kind = "match" /\ resp.score < SimilarityThreshold
                         THEN rejected \cup {search_option} ELSE rejected
         /\ retry' = IF Retryable(resp) THEN retry \cup {<<cache_key, search_option>>}
                                        ELSE retry \ {<<cache_key, search_option>>}
    /\ consulted' = Append(consulted, search_option)
    /\ ncalls' = ncalls + 1
    /\ idx' = idx + 1
    /\ UNCHANGED <<config, search_order, searchers, query, prev, before,
                   nstarted, other_vars>>

\* the provider is called and the cache file is writable
FetchStep == FetchStepSave("ok")

\* get_genres lines 75-76
ReturnStepSave(how) ==
    /\ pc = "loop"
    /\ idx > Len(search_order)
    /\ disk' = SaveCacheHow(cache, disk, how)
    /\ pc' = AfterSave(how, "returned")
    /\ prev' = [prev EXCEPT ![query] = [called |-> TRUE, result |-> genres, clean |-> errored = {} /\ rejected = {}]]
    /\ ev' = [Event("return", "", NoMatch, FALSE) EXCEPT !.save = how]
    /\ UNCHANGED <<config, search_order, searchers, cache, query, idx, genres,
                   origin, consulted, ncalls, errored, rejected, retry, before, nstarted,
                   other_vars>>

\* get_genres returns and the cache file is writable
ReturnStep == ReturnStepSave("ok")

Next ==
    \/ NewSession
    \/ GetGenres
    \/ SkipStep
    \/ CacheHitStep
    \/ KeyErrorStep
    \/ FetchStep
    \/ ReturnStep

Spec == Init /\ [][Next]_vars

TypeOK ==
    /\ config \in Configs
    /\ pc \in {"idle", "loop", "returned", "raised"}
    /\ query \in Queries
    /\ idx \in 1..(Len(search_order) + 1)
    /\ Len(origin) = Len(genres)
    /\ ncalls \in 0..3


\* ------------------------------------- the engine with a failing cache file

\* a new search run; reading the cache file may meet an OSError
NewSessionIO == \E how \in LoadOutcomes : NewSessionLoad(how)

\* the provider is called; the save after an accepted match may fail
FetchStepIO == \E how \in SaveOutcomes : FetchStepSave(how)

\* get_genres returns; the save of line 75 may fail
ReturnStepIO == \E how \in SaveOutcomes : ReturnStepSave(how)

\* between two search runs the file is damaged from outside: it is still JSON
\* that json.load parses, but one of its tags is not a dict GenreTag.from_dict
\* takes, so the rebuilding loop of _load_cache raises after the entries
\* before it
DamageFile ==
    /\ pc \in {"returned", "raised"}
    /\ disk.exists /\ disk.readable
    /\ disk' = [disk EXCEPT !.readable = FALSE]
    /\ ev' = Event("damage", "", NoMatch, FALSE)
    /\ UNCHANGED <<config, search_order, searchers, cache, pc, query, idx, genres,
                   origin, consulted, ncalls, errored, rejected, prev, retry, before,
                   nstarted, other_vars>>

NextIO ==
    \/ NewSessionIO
    \/ GetGenres
    \/ SkipStep
    \/ CacheHitStep
    \/ KeyErrorStep
    \/ FetchStepIO
    \/ ReturnStepIO
    \/ DamageFile

\* the configurations with two ticked sources and a last.fm key
ConfigsIO == { cfg \in Configs : Len(cfg.sources) = 2 /\ cfg.lastfm_api_key }

InitIO ==
    /\ \E cfg \in ConfigsIO : Setup(cfg, LoadCache(NoFile))
    /\ given = Nothing
    /\ outcome = Nothing
    /\ NoThread

SpecIO == InitIO /\ [][NextIO]_vars

\* ------------------------------------------- the cache file, on its own

\* lists of paths a cache entry can hold, the empty list and the empty path included
PathLists == { <<>>, << <<>> >>, <<PathDance>>, << <<>>, PathPop >> }

\* what the cache holds under one key: provider -> list of paths
SourceMaps == UNION { [S -> PathLists] : S \in SUBSET Providers }

\* the caches with at least one key
CachePool == UNION { [K -> SourceMaps] : K \in (SUBSET { CacheKey(q) : q \in Queries }) \ {{}} }

SomeConfig == [sources |-> <<"lastfm">>, lastfm_api_key |-> TRUE, discogs_api_key |-> TRUE]

\* an engine holding a cache of the pool, no cache file yet
InitRoundTrip ==
    /\ \E c \in CachePool : Setup(SomeConfig, c)
    /\ given = cache
    /\ outcome = <<>>
    /\ NoThread

\* GenreSearch._save_cache, on the first cache and on the loaded one
SaveAgain ==
    /\ pc = "idle"
    /\ Len(outcome) < 2
    /\ outcome = <<>> \/ ev.kind = "load"
    /\ disk' = SaveCache(cache)
    /\ outcome' = Append(outcome, disk'.doc)
    /\ ev' = [Event("save", "", NoMatch, FALSE) EXCEPT !.save = "ok"]
    /\ UNCHANGED <<config, search_order, searchers, cache, pc, query, idx, genres,
                   origin, consulted, ncalls, errored, rejected, prev, retry, before,
                   nstarted, given, thread_vars, dialog_vars>>

\* GenreSearch._load_cache of the file just saved
LoadSaved ==
    /\ pc = "idle"
    /\ ev.kind = "save"
    /\ Len(outcome) = 1
    /\ cache' = LoadCache(disk)
    /\ ev' = [Event("load", "", NoMatch, FALSE) EXCEPT !.load = "ok"]
    /\ UNCHANGED <<config, search_order, searchers, disk, pc, query, idx, genres,
                   origin, consulted, ncalls, errored, rejected, prev, retry, before,
                   nstarted, given, outcome, thread_vars, dialog_vars>>

NextRoundTrip == SaveAgain \/ LoadSaved

SpecRoundTrip == InitRoundTrip /\ [][NextRoundTrip]_vars

\* ------------------------------------ one search run of the dialog's batch

\* SimfileMetadata, the fields the search reads
SongPlain ==
    [title |-> "z (Hard)", subtitle |-> "", artist |-> "x|y",
     titletranslit |-> "", subtitletranslit |-> "", artisttranslit |-> "", genre |-> ""]

SongTranslit ==
    [title |-> "z", subtitle |-> "", artist |-> "x|y",
     titletranslit |-> "z (Hard)", subtitletranslit |-> "", artisttranslit |-> "",
     genre |-> "Pop"]

Songs == {SongPlain, SongTranslit}

Batches == [1..NumSongs -> Songs]

\* strip_common_sm_words on the strings of the songs: "(Hard)" is removed, the
\* white space collapsed and trimmed
StripCommonSmWords(some_string) ==
    IF some_string = "z (Hard)" THEN "z" ELSE some_string

\* Python's a or b on strings
StrOr(a, b) == IF a # "" THEN a ELSE b

\* _do_search_for_simfile lines 73-76: the search with the original fields
NormalQuery(simfile) ==
    Query(simfile.artist, StripCommonSmWords(simfile.title),
          StripCommonSmWords(simfile.subtitle))

\* _do_search_for_simfile line 82
HasTranslit(simfile) == simfile.artisttranslit # "" \/ simfile.titletranslit # ""

\* _do_search_for_simfile lines 83-86: the search with the transliterated fields
TranslitQuery(simfile) ==
    Query(StripCommonSmWords(StrOr(simfile.artisttranslit, simfile.artist)),
          StripCommonSmWords(StrOr(simfile.titletranslit, simfile.title)),
          StripCommonSmWords(StrOr(simfile.subtitletranslit, simfile.subtitle)))

\* A path object is named by where the cache holds it: <<key, provider, i>>
\* is the i-th path of the list under (key, provider).  Every path get_genres
\* returns is such an object: a hit appends the cached paths themselves (line
\* 43), and _add_to_cache stores a shallow copy of the list, so the paths of an
\* accepted match are shared by the cache and the result.
Ref(key, provider, i) == <<key, provider, i>>

Deref(c, ref) == c[ref[1]][ref[2]][ref[3]]

\* the list a get_genres call for key returned, as path objects: each provider
\* of origin contributed its cache entry as one block
Refs(key, orig) ==
    [i \in 1..Len(orig) |->
        LET first == CHOOSE j \in 1..i :
                        orig[j] = orig[i] /\ \A m \in 1..(j - 1) : orig[m] # orig[i]
        IN  Ref(key, orig[i], i - first + 1)]

Values(c, refs) == [i \in 1..Len(refs) |-> Deref(c, refs[i])]

\* list.reverse()
Reverse(seq) == [i \in 1..Len(seq) |-> seq[Len(seq) + 1 - i]]

Signal(sig, r, arg) == [sig |-> sig, row |-> r, arg |-> arg]

IsResult(e) == e.sig \in {"genres_found", "no_genre_found"}

\* how many per-song result events a list of signals holds
NumResults(es) == Cardinality({ i \in 1..Len(es) : IsResult(es[i]) })

NumProgress(es) == Cardinality({ i \in 1..Len(es) : es[i].sig = "progress_update" })

\* how many search_complete signals a list of signals holds
NumComplete(es) == Cardinality({ i \in 1..Len(es) : es[i].sig = "search_complete" })

\* _create_simfile_table lines 131-134
SearchingCombo == [enabled |-> FALSE, items |-> << <<"(searching...)", NoneStr>> >>,
                   current |-> 0]

\* the settings of the batch runs: last.fm and the fallback ticked, with keys;
\* no source ticked and only the last.fm key (search_order defaults to
\* lastfm, discogs)
ConfigsBatch ==
    { [sources |-> <<"lastfm", "animethemes">>, lastfm_api_key |-> TRUE,
       discogs_api_key |-> TRUE],
      [sources |-> <<>>, lastfm_api_key |-> TRUE, discogs_api_key |-> FALSE] }

\* on_search_clicked: the controls are disabled, the thread is built and started
InitBatch ==
    /\ \E cfg \in ConfigsBatch : Setup(cfg, LoadCache(NoFile))
    /\ simfiles \in Batches
    /\ tpc = "top"
    /\ row = 0
    /\ cancelled = FALSE
    /\ result = <<>>
    /\ events = <<>>
    /\ handled = 0
    /\ dialog = [bar_visible |-> TRUE, bar |-> <<0, 0, "">>,
                 search_enabled |-> FALSE, apply_enabled |-> FALSE]
    /\ combo = [r \in 0..(Len(simfiles) - 1) |-> SearchingCombo]
    /\ seen = -1
    /\ cancel_at = -1
    /\ given = Nothing
    /\ outcome = Nothing

simfile == simfiles[row + 1]

\* the bug of not looking at the flag
ShouldBreak_Never(flag) == FALSE

\* run line 57: if self._cancelled
ShouldBreak(flag) == flag

\* run lines 56-62: _cancelled is read as False, progress_update is emitted and
\* the search with the original fields starts
RunIterate ==
    /\ tpc = "top"
    /\ row < Len(simfiles)
    /\ ~ShouldBreak(cancelled)
    /\ events' = Append(events, Signal("progress_update", row,
                                       <<row + 1, Len(simfiles), simfile.title>>))
    /\ result' = <<>>
    /\ GetGenresOf(NormalQuery(simfile))
    /\ tpc' = "normal"
    /\ UNCHANGED <<simfiles, row, cancelled, seen, cancel_at, dialog_vars, given, outcome>>

\* run lines 57-59: _cancelled is read as True, the loop is left
RunBreak ==
    /\ tpc = "top"
    /\ row < Len(simfiles)
    /\ ShouldBreak(cancelled)
    /\ tpc' = "break"
    /\ seen' = Len(events)
    /\ UNCHANGED <<engine_vars, simfiles, row, cancelled, result, events, cancel_at,
                   dialog_vars, given, outcome>>

\* run lines 67-68, after the last song or after the break
RunComplete ==
    /\ tpc = "break" \/ (tpc = "top" /\ row = Len(simfiles))
    /\ events' = Append(events, Signal("search_complete", -1, <<>>))
    /\ tpc' = "done"
    /\ UNCHANGED <<engine_vars, simfiles, row, cancelled, result, seen, cancel_at,
                   dialog_vars, given, outcome>>

\* the bug of keeping only the list of the later search
Merge_Replace(so_far, more) == more

\* _do_search_for_simfile lines 78-79 and 88-89: result += more, where a
\* search that found nothing adds nothing
Merge(so_far, more) == so_far \o more

\* _do_search_for_simfile lines 77-86: the first search returned, the song has
\* transliterated fields, the second search starts
SearchTranslit ==
    /\ tpc = "normal"
    /\ pc = "returned"
    /\ HasTranslit(simfile)
    /\ result' = Merge(result, Refs(cache_key, origin))
    /\ GetGenresOf(TranslitQuery(simfile))
    /\ tpc' = "translit"
    /\ UNCHANGED <<simfiles, row, cancelled, events, seen, cancel_at, dialog_vars,
                   given, outcome>>

\* _do_search_for_simfile lines 77-111 and run lines 63-66: the last search of
\* the song returned, the merged list is emitted, or no_genre_found if it is empty
EmitResult ==
    /\ \/ tpc = "normal" /\ ~HasTranslit(simfile)
       \/ tpc = "translit"
    /\ pc = "returned"
    /\ LET merged == Merge(result, Refs(cache_key, origin))
       IN  /\ events' = Append(events,
                            IF Len(merged) = 0
                            THEN Signal("no_genre_found", row, <<>>)
                            ELSE Signal("genres_found", row, merged))
           /\ result' = merged
    /\ row' = row + 1
    /\ tpc' = "top"
    /\ UNCHANGED <<engine_vars, simfiles, cancelled, seen, cancel_at, dialog_vars,
                   given, outcome>>

\* get_genres raised: run has no try, the exception ends the thread
RunRaises ==
    /\ tpc \in {"normal", "translit"}
    /\ pc = "raised"
    /\ tpc' = "dead"
    /\ UNCHANGED <<engine_vars, simfiles, row, cancelled, result, events, seen, cancel_at,
                   dialog_vars, given, outcome>>

\* on_cancel -> GenreSearchThread.cancel, in the GUI thread
Cancel ==
    /\ tpc \notin {"done", "dead"}
    /\ ~cancelled
    /\ cancelled' = TRUE
    /\ cancel_at' = NumResults(events)
    /\ UNCHANGED <<engine_vars, simfiles, tpc, row, result, events, seen, dialog_vars,
                   given, outcome>>

\* Python's None where a GenreTag is expected
NoTag == Tag(NoneStr, 0)

\* the bug of testing "Dance" like any other tag
GroupCandidates_KeepDance(group) ==
    [i \in 1..Len(group) |-> [tag |-> Reverse(group)[i], depth |-> i]]

\* _get_initial_genres_selection lines 222-233: the tags of one group in the
\* order the loop meets them (leaf first, on a reversed copy), "Dance" left
\* out, each with the depth the loop has counted when it tests the tag
GroupCandidates(group) ==
    LET kept == SelectSeq(Reverse(group), LAMBDA genre : genre.name # "Dance")
    IN  [i \in 1..Len(kept) |-> [tag |-> kept[i], depth |-> i]]

RECURSIVE Candidates(_)
Candidates(groups) ==
    IF groups = <<>> THEN <<>>
    ELSE GroupCandidates(Head(groups)) \o Candidates(Tail(groups))

RECURSIVE BestOf(_, _)
BestOf(cands, best) ==
    IF cands = <<>> THEN best
    ELSE LET c == Head(cands)
         IN  BestOf(Tail(cands),
                    IF \/ c.tag.score > best.score
                       \/ (c.tag.score = best.score /\ c.depth >= best.depth)
                    THEN [genre |-> c.tag, score |-> c.tag.score, depth |-> c.depth]
                    ELSE best)

\* GenreNormalizationDialog._get_initial_genres_selection
GetInitialGenresSelection(groups) ==
    BestOf(Candidates(groups), [genre |-> NoTag, score |-> 0, depth |-> 0]).genre

Names(path) == [i \in 1..Len(path) |-> path[i].name]

\* path.reverse() on the path object ref
ReverseAt(c, ref) == [c EXCEPT ![ref[1]][ref[2]][ref[3]] = Reverse(@)]

\* GenreNormalizationDialog.build_genre_tree: each path object of the list is
\* reversed in place and then walked into the tree.  heap is the cache that
\* holds the objects; inserted lists the walks, oldest first: the tree is the
\* set of their prefixes, in insertion order.
RECURSIVE BuildGenreTree(_, _, _)
BuildGenreTree(genre_paths, heap, inserted) ==
    IF genre_paths = <<>> THEN [heap |-> heap, inserted |-> inserted]
    ELSE LET reversed == ReverseAt(heap, Head(genre_paths))
         IN  BuildGenreTree(Tail(genre_paths), reversed,
                            Append(inserted, Names(Deref(reversed, Head(genre_paths)))))

IsPrefix(p, q) == Len(p) <= Len(q) /\ SubSeq(q, 1, Len(p)) = p

\* the keys of the tree node reached by prefix, in insertion order
RECURSIVE ChildNames(_, _, _)
ChildNames(inserted, prefix, found) ==
    IF inserted = <<>> THEN found
    ELSE LET walk == Head(inserted)
             fits == IsPrefix(prefix, walk) /\ Len(walk) > Len(prefix)
         IN  ChildNames(Tail(inserted), prefix,
                        IF fits /\ ~InSeq(walk[Len(prefix) + 1], found)
                        THEN Append(found, walk[Len(prefix) + 1]) ELSE found)

\* "  " * (depth - 1)
RECURSIVE Indent(_)
Indent(n) == IF n <= 0 THEN "" ELSE "  " \o Indent(n - 1)

DisplayText(genre, depth) ==
    IF depth = 0 THEN genre ELSE Indent(depth - 1) \o " |- " \o genre

\* GenreNormalizationDialog.flatten_tree_for_display: (display_text, actual_value)
RECURSIVE FlattenLevel(_, _, _)
FlattenLevel(inserted, prefix, names) ==
    IF names = <<>> THEN <<>>
    ELSE LET genre == Head(names)
             below == Append(prefix, genre)
         IN  << <<DisplayText(genre, Len(prefix)), genre>> >>
             \o FlattenLevel(inserted, below, ChildNames(inserted, below, <<>>))
             \o FlattenLevel(inserted, prefix, Tail(names))

FlattenTreeForDisplay(inserted) ==
    FlattenLevel(inserted, <<>>, ChildNames(inserted, <<>>, <<>>))

\* update_genre_options_for_row lines 299-304: the index of the last item whose
\* value is the name of the initial selection, or the first item
CurrentIndex(items, initial_selection) ==
    LET matches == { i \in 1..Len(items) : items[i][2] = initial_selection.name }
    IN  IF initial_selection = NoTag \/ matches = {} THEN 0
        ELSE (CHOOSE i \in matches : \A j \in matches : j <= i) - 1

\* update_genre_options_for_row for a non-empty list
GenreOptions(inserted, initial_selection, current_genre) ==
    LET items == FlattenTreeForDisplay(inserted)
    IN  [enabled |-> TRUE,
         items |-> IF current_genre # ""
                   THEN Append(items, <<"(keep: " \o current_genre \o ")", NoneStr>>)
                   ELSE items,
         current |-> CurrentIndex(items, initial_selection)]

\* the signal the GUI thread handles next (queued connections keep the order)
HasSignal(sig) == handled < Len(events) /\ events[handled + 1].sig = sig

signal == events[handled + 1]

\* on_search_progress
OnSearchProgress ==
    /\ HasSignal("progress_update")
    /\ dialog' = [dialog EXCEPT !.bar = signal.arg]
    /\ handled' = handled + 1
    /\ UNCHANGED <<engine_vars, thread_vars, combo, given, outcome>>

\* on_genre_found: the initial selection is computed, then the tree is built,
\* which reverses the delivered path objects, the cache's own
OnGenreFound ==
    /\ HasSignal("genres_found")
    /\ LET paths == Values(cache, signal.arg)
           initial_selection == GetInitialGenresSelection(paths)
           tree == BuildGenreTree(signal.arg, cache, <<>>)
       IN  /\ cache' = tree.heap
           /\ combo' = [combo EXCEPT ![signal.row] =
                           GenreOptions(tree.inserted, initial_selection,
                                        simfiles[signal.row + 1].genre)]
           /\ given' = paths
           /\ outcome' = Values(cache', signal.arg)
           \* the list of a running get_genres call holds the same objects
           /\ genres' = IF pc = "idle" THEN genres
                         ELSE Values(cache', Refs(cache_key, origin))
    /\ handled' = handled + 1
    /\ UNCHANGED <<config, search_order, searchers, disk, pc, query, idx,
                   origin, consulted, ncalls, errored, rejected, prev, retry, ev, before,
                   nstarted, thread_vars, dialog>>

\* on_no_genre_found
OnNoGenreFound ==
    /\ HasSignal("no_genre_found")
    /\ combo' = [combo EXCEPT ![signal.row] =
                    [enabled |-> FALSE, items |-> << <<"(no results found)", NoneStr>> >>,
                     current |-> 0]]
    /\ handled' = handled + 1
    /\ UNCHANGED <<engine_vars, thread_vars, dialog, given, outcome>>

\* on_search_complete
OnSearchComplete ==
    /\ HasSignal("search_complete")
    /\ dialog' = [dialog EXCEPT !.bar_visible = FALSE, !.search_enabled = TRUE,
                                !.apply_enabled = TRUE]
    /\ handled' = handled + 1
    /\ UNCHANGED <<engine_vars, thread_vars, combo, given, outcome>>

NextBatch ==
    \/ RunIterate
    \/ RunBreak
    \/ RunComplete
    \/ SearchTranslit
    \/ EmitResult
    \/ RunRaises
    \/ Cancel
    \/ SkipStep
    \/ CacheHitStep
    \/ KeyErrorStep
    \/ FetchStep
    \/ ReturnStep
    \/ OnSearchProgress
    \/ OnGenreFound
    \/ OnNoGenreFound
    \/ OnSearchComplete

SpecBatch == InitBatch /\ [][NextBatch]_vars

\* ------------------------------------------------- pick_genre, on its own

\* candidate paths in one call of pick_genre
MaxPaths == 2

\* the tag names of the paths handed to pick_genre: paths of strings, as
\* get_pop, get_regional_pop and get_dance_genre read them
TagNames == {"Pop", "J-Pop", "Dance", "Uk Garage", "Electronic", "Rock", "Synthwave"}

\* every path of one or two different tags, the empty path
ShortPaths ==
    {<<>>} \cup { <<a>> : a \in TagNames }
           \cup { <<ab[1], ab[2]>> : ab \in { t \in TagNames \X TagNames : t[1] # t[2] } }

LongPaths ==
    { <<"Electronic", "Dance", "J-Pop">>,
      <<"Electronic", "Dance", "Uk Garage">>,
      <<"Electronic", "Dance", "Synthwave">>,
      <<"Electronic", "Uk Garage", "Dance">>,
      <<"Dance", "Uk Garage", "Synthwave">>,
      <<"Rock", "Electronic", "Synthwave">> }

GenrePaths == ShortPaths \cup LongPaths

\* canonicalized_genres: up to MaxPaths paths, the empty list included
CandidateLists == UNION { [1..n -> GenrePaths] : n \in 0..MaxPaths }

\* get_regional_pop: regional_pop_genres, in the order of the list
RegionalPopGenres ==
    <<"Arab Pop", "Austropop", "Balkan Pop", "French Pop", "Latin Pop", "Nederpop",
      "Russian Pop", "Iranian Pop", "Mexican Pop", "Turkish Pop", "Europop", "Vispop",
      "J-Pop", "K-Pop", "C-Pop">>

\* the bug of reading only the leaf of the path
GetPop_LeafOnly(path) ==
    IF path # <<>> /\ path[Len(path)] = "Pop" THEN "Pop" ELSE NoneStr

\* get_pop
GetPop(path) == IF InSeq("Pop", path) THEN "Pop" ELSE NoneStr

\* the bug of returning the head of the list when the path holds any of it
GetRegionalPop_HeadOfList(path) ==
    IF \E i \in 1..Len(RegionalPopGenres) : InSeq(RegionalPopGenres[i], path)
    THEN RegionalPopGenres[1] ELSE NoneStr

\* get_regional_pop: the first genre of the list that the path contains
GetRegionalPop(path) ==
    LET found == { i \in 1..Len(RegionalPopGenres) : InSeq(RegionalPopGenres[i], path) }
    IN  IF found = {} THEN NoneStr
        ELSE RegionalPopGenres[CHOOSE i \in found : \A j \in found : i <= j]

\* the bug of removing "Uk Garage" from the path itself
GetDanceGenre_InPlace(path) ==
    IF InSeq("Dance", path)
    THEN LET genre_path == IF InSeq("Uk Garage", path) THEN Remove(path, "Uk Garage")
                           ELSE path
         IN  [genre |-> IF Len(genre_path) > 1 THEN genre_path[Len(genre_path) - 1]
                        ELSE genre_path[Len(genre_path)],
              path |-> genre_path]
    ELSE [genre |-> NoneStr, path |-> path]

\* get_dance_genre: the value returned and the path object after the call;
\* "Uk Garage" is removed from a copy
GetDanceGenre(path) ==
    IF InSeq("Dance", path)
    THEN LET genre_path == IF InSeq("Uk Garage", path) THEN Remove(path, "Uk Garage")
                           ELSE path
         IN  [genre |-> IF Len(genre_path) > 1 THEN genre_path[Len(genre_path) - 1]
                        ELSE genre_path[Len(genre_path)],
              path |-> path]
    ELSE [genre |-> NoneStr, path |-> path]

\* pick_genre lines 9-15: path by path, the regional pop of the path, else
\* "Pop" if the path holds it
RECURSIVE PopPass(_)
PopPass(canonicalized_genres) ==
    IF canonicalized_genres = <<>> THEN NoneStr
    ELSE LET g == Head(canonicalized_genres)
             regional_pop == GetRegionalPop(g)
             just_pop == GetPop(g)
         IN  IF regional_pop # NoneStr THEN regional_pop
             ELSE IF just_pop # NoneStr THEN just_pop
             ELSE PopPass(Tail(canonicalized_genres))

\* pick_genre lines 18-21, from the i-th path on
RECURSIVE DancePass(_, _)
DancePass(canonicalized_genres, i) ==
    IF i > Len(canonicalized_genres)
    THEN [genre |-> NoneStr, paths |-> canonicalized_genres]
    ELSE LET dance == GetDanceGenre(canonicalized_genres[i])
             after == [canonicalized_genres EXCEPT ![i] = dance.path]
         IN  IF dance.genre # NoneStr THEN [genre |-> dance.genre, paths |-> after]
             ELSE DancePass(after, i + 1)

\* max(canonicalized_genres, key=len): the first of the longest
LongestGenre(canonicalized_genres) ==
    LET i == CHOOSE i \in 1..Len(canonicalized_genres) :
                /\ \A j \in 1..Len(canonicalized_genres) :
                      Len(canonicalized_genres[j]) <= Len(canonicalized_genres[i])
                /\ \A j \in 1..(i - 1) :
                      Len(canonicalized_genres[j]) < Len(canonicalized_genres[i])
    IN  canonicalized_genres[i]

Picked(genre, paths) == [raised |-> NoneStr, genre |-> genre, paths |-> paths]

PickRaised(error, paths) == [raised |-> error, genre |-> NoneStr, paths |-> paths]

\* pick_genre: what the call returns or raises, and the list after the call
PickGenre(canonicalized_genres) ==
    LET pop == PopPass(canonicalized_genres)
        dance == DancePass(canonicalized_genres, 1)
    IN  IF pop # NoneStr THEN Picked(pop, canonicalized_genres)
        ELSE IF dance.genre # NoneStr THEN Picked(dance.genre, dance.paths)
        ELSE IF canonicalized_genres = <<>> THEN PickRaised("ValueError", dance.paths)
        ELSE IF LongestGenre(dance.paths) = <<>> THEN PickRaised("IndexError", dance.paths)
        ELSE Picked(LongestGenre(dance.paths)[1], dance.paths)

\* a list of candidate paths, pick_genre not yet called
InitPick ==
    /\ Setup(SomeConfig, LoadCache(NoFile))
    /\ given \in CandidateLists
    /\ outcome = Nothing
    /\ NoThread

\* pick_genre(given)
PickGenreCall ==
    /\ outcome = Nothing
    /\ outcome' = PickGenre(given)
    /\ UNCHANGED <<engine_vars, given, thread_vars, dialog_vars>>

SpecPick == InitPick /\ [][PickGenreCall]_vars

\* ------------------------- _get_initial_genres_selection, on its own

\* the tags of the groups: "Dance" with the highest score, two tags of equal
\* score, a score of 0 and a score below 0
ScoredTags ==
    { Tag("Dance", 2), Tag("Rock", 1), Tag("House", 1), Tag("Pop", 0), Tag("Techno", -1) }

\* every group of one or two different tags, the empty group, and groups of
\* three with and without "Dance"
Groups ==
    {<<>>} \cup { <<a>> : a \in ScoredTags }
           \cup { <<ab[1], ab[2]>> : ab \in { t \in ScoredTags \X ScoredTags : t[1] # t[2] } }
           \cup { <<Tag("Rock", 1), Tag("Dance", 2), Tag("House", 1)>>,
                  <<Tag("Dance", 2), Tag("House", 1), Tag("Rock", 1)>>,
                  <<Tag("Pop", 0), Tag("Rock", 1), Tag("House", 1)>>,
                  <<Tag("Techno", -1), Tag("Dance", 2), Tag("Pop", 0)>> }

\* genres: up to MaxPaths groups
GroupLists == UNION { [1..n -> Groups] : n \in 0..MaxPaths }

\* a list of groups, _get_initial_genres_selection not yet called
InitSelect ==
    /\ Setup(SomeConfig, LoadCache(NoFile))
    /\ given \in GroupLists
    /\ outcome = Nothing
    /\ NoThread

\* self._get_initial_genres_selection(given)
SelectCall ==
    /\ outcome = Nothing
    /\ outcome' = [genre |-> GetInitialGenresSelection(given)]
    /\ UNCHANGED <<engine_vars, given, thread_vars, dialog_vars>>

SpecSelect == InitSelect /\ [][SelectCall]_vars

\* ------------------ AnimeThemesSearch._get_best_matching_theme_artists

\* themes of one anime
MaxThemes == 3

\* what _score_artist (fuzzytrackmatch) can give for the artists of a theme
\* against the searched artists
ArtistScores == {-1, 0, 1, 2}

\* an AnimeTheme as the method reads it: has_artists says whether
\* _get_artists_from_anime_theme returns a list (song and song.artists are not
\* None); score is what _score_artist returns for that list
Theme(has_artists, score) == [has_artists |-> has_artists, score |-> score]

ThemeKinds == { Theme(FALSE, 0) } \cup { Theme(TRUE, sc) : sc \in ArtistScores }

\* anime.animethemes: a theme is named by its place in the list
ThemeLists == UNION { [1..n -> ThemeKinds] : n \in 0..MaxThemes }

\* Python's None where a theme is expected
NoTheme == 0

\* the bug of letting a later theme of equal score replace the best one
ScoreBeats_OrEquals(score, best_score) == score >= best_score

\* _get_best_matching_theme_artists line 100
ScoreBeats(score, best_score) == score > best_score

\* _get_best_matching_theme_artists lines 96-102, from the i-th theme on
RECURSIVE BestThemeFrom(_, _, _, _)
BestThemeFrom(themes, i, best_match, best_score) ==
    IF i > Len(themes) THEN best_match
    ELSE IF themes[i].has_artists /\ ScoreBeats(themes[i].score, best_score)
         THEN BestThemeFrom(themes, i + 1, i, themes[i].score)
         ELSE BestThemeFrom(themes, i + 1, best_match, best_score)

\* AnimeThemesSearch._get_best_matching_theme_artists: the place of the theme
\* returned, NoTheme for None
GetBestMatchingThemeArtists(themes) == BestThemeFrom(themes, 1, NoTheme, 0)

\* the themes of one anime, the method not yet called
InitThemes ==
    /\ Setup(SomeConfig, LoadCache(NoFile))
    /\ given \in ThemeLists
    /\ outcome = Nothing
    /\ NoThread

\* self._get_best_matching_theme_artists(given, searched_artists)
BestThemeCall ==
    /\ outcome = Nothing
    /\ outcome' = [best_match |-> GetBestMatchingThemeArtists(given)]
    /\ UNCHANGED <<engine_vars, given, thread_vars, dialog_vars>>

SpecThemes == InitThemes /\ [][BestThemeCall]_vars

\* ------------------------------------- the engine asked for similar triples

ConfigKeys ==
    [sources |-> <<"lastfm", "discogs">>, lastfm_api_key |-> TRUE, discogs_api_key |-> TRUE]

InitKeys ==
    /\ Setup(ConfigKeys, LoadCache(NoFile))
    /\ given = Nothing
    /\ outcome = Nothing
    /\ NoThread

\* a caller asks for one of the triples of the larger pool
GetGenresKeys ==
    /\ nstarted < MaxCalls
    /\ \E q \in AllQueries : GetGenresOf(q)
    /\ UNCHANGED other_vars

NextKeys ==
    \/ GetGenresKeys
    \/ CacheHitStep
    \/ FetchStep
    \/ ReturnStep

SpecKeys == InitKeys /\ [][NextKeys]_vars

\* ------------------------------------------- the dialog and its buttons

\* clicks on "Search for Genres" in one dialog
MaxSearches == 2

\* GenreNormalizationDialog.__init__ and setup_ui: the table shows the songs,
\* the progress bar is hidden, Apply is disabled, no search_thread attribute
\* exists yet
InitDialog ==
    /\ \E cfg \in ConfigsBatch : Setup(cfg, LoadCache(NoFile))
    /\ simfiles \in [1..1 -> Songs]
    /\ tpc = "none"
    /\ row = 0
    /\ cancelled = FALSE
    /\ result = <<>>
    /\ events = <<>>
    /\ handled = 0
    /\ dialog = [bar_visible |-> FALSE, bar |-> <<0, 0, "">>,
                 search_enabled |-> TRUE, apply_enabled |-> FALSE, open |-> TRUE]
    /\ combo = [r \in 0..(Len(simfiles) - 1) |-> SearchingCombo]
    /\ seen = -1
    /\ cancel_at = -1
    /\ given = Nothing
    /\ outcome = Nothing

\* on_search_clicked: the Search button is disabled, the bar shown, a new
\* GenreSearchThread (with a new GenreSearch) is stored and started
OnSearchClicked ==
    /\ dialog.open /\ dialog.search_enabled
    /\ NumComplete(events) < MaxSearches
    /\ dialog' = [dialog EXCEPT !.search_enabled = FALSE, !.bar_visible = TRUE,
                                !.bar = <<0, 0, "">>]
    /\ Rebuild("ok")
    /\ tpc' = "top"
    /\ row' = 0
    /\ cancelled' = FALSE
    /\ result' = <<>>
    /\ UNCHANGED <<simfiles, events, seen, cancel_at, handled, combo, given, outcome>>

\* on_cancel: self.search_thread.cancel(), then reject(); without a
\* search_thread attribute the first line raises AttributeError
OnCancel ==
    /\ dialog.open
    /\ IF tpc = "none"
       THEN /\ outcome' = "AttributeError"
            /\ UNCHANGED <<cancelled, dialog>>
       ELSE /\ cancelled' = TRUE
            /\ dialog' = [dialog EXCEPT !.open = FALSE]
            /\ UNCHANGED outcome
    /\ UNCHANGED <<engine_vars, simfiles, tpc, row, result, events, seen, cancel_at,
                   handled, combo, given>>

\* on_apply_clicked: the rows whose selected value differs from the song's
\* genre are applied and the dialog is accepted; with no such row it stays open
OnApplyClicked ==
    /\ dialog.open /\ dialog.apply_enabled
    /\ \E replace_existing \in BOOLEAN :
          LET changes == { r \in DOMAIN combo :
                             LET selected_genre == combo[r].items[combo[r].current + 1][2]
                                 current_genre == simfiles[r + 1].genre
                             IN  /\ selected_genre # NoneStr
                                 /\ replace_existing \/ current_genre = ""
                                 /\ selected_genre # current_genre }
          IN  dialog' = [dialog EXCEPT !.open = (changes = {})]
    /\ UNCHANGED <<engine_vars, thread_vars, handled, combo, given, outcome>>

NextDialog ==
    \/ OnSearchClicked
    \/ OnCancel
    \/ OnApplyClicked
    \/ RunIterate
    \/ RunBreak
    \/ RunComplete
    \/ SearchTranslit
    \/ EmitResult
    \/ RunRaises
    \/ SkipStep
    \/ CacheHitStep
    \/ KeyErrorStep
    \/ FetchStep
    \/ ReturnStep
    \/ OnSearchProgress
    \/ OnGenreFound
    \/ OnNoGenreFound
    \/ OnSearchComplete

SpecDialog == InitDialog /\ [][NextDialog]_vars

\* -------------------------- SimfileController and its ChangeManager

\* ChangeManager._max_history
MaxHistory == 2

\* the simfiles the controller has loaded, with the genre each was loaded with
LoadedGenres == [a |-> "", b |-> "p"]

\* the id lists handed to set_field_bulk: one id (set_field), two ids, the same
\* id twice, an id that is not loaded
IdLists == { <<"a">>, <<"b">>, <<"a", "b">>, <<"a", "a">>, <<"missing">> }

\* the field names handed to set_field_bulk; FieldRegistry knows "genre" only
FieldNames == {"genre", "nope"}

NewValues == {"", "p"}

SimfileChange(simfile_id, field_name, old_value, new_value) ==
    [simfile_id |-> simfile_id, field_name |-> field_name,
     old_value |-> old_value, new_value |-> new_value]

\* the bug of copying the values as they are
SimfileChangeInvert_NoSwap(change) == change

\* SimfileChange.invert
SimfileChangeInvert(change) ==
    SimfileChange(change.simfile_id, change.field_name, change.new_value, change.old_value)

\* None where a ChangeCommand is expected: a command has a description and
\* at least one change
NoCommand == [description |-> NoneStr, changes |-> <<>>]

\* ChangeCommand.invert
ChangeCommandInvert(command) ==
    [description |-> "Undo: " \o command.description,
     changes |-> [i \in 1..Len(command.changes) |->
                    SimfileChangeInvert(Reverse(command.changes)[i])]]

\* the bug of dropping the command just added: pop() for pop(0)
AddCommand_DropNewest(undo_stack, command) ==
    IF Len(undo_stack) + 1 > MaxHistory THEN undo_stack ELSE Append(undo_stack, command)

\* ChangeManager.add_command: the undo stack after the call (the redo stack
\* is cleared)
AddCommand(undo_stack, command) ==
    IF Len(undo_stack) + 1 > MaxHistory THEN Tail(Append(undo_stack, command))
    ELSE Append(undo_stack, command)

\* SimfileController._apply_changes
RECURSIVE ApplyChanges(_, _)
ApplyChanges(st, changes) ==
    IF changes = <<>> THEN st
    ELSE LET change == Head(changes)
             known == change.simfile_id \in DOMAIN st.genre
         IN  ApplyChanges(IF known
                          THEN [st EXCEPT !.genre[change.simfile_id] = change.new_value,
                                          !.modified[change.simfile_id] = TRUE]
                          ELSE st,
                          Tail(changes))

\* the bug of recording a change although the value is already the new one
ValueDiffers_Always(old_value, new_value) == TRUE

\* set_field_bulk lines 144-146
ValueDiffers(old_value, new_value) == old_value # new_value

\* SimfileController.set_field_bulk: the controller after the call and the
\* value returned
SetFieldBulk(st, simfile_ids, field_name, new_value) ==
    LET changed == SelectSeq(simfile_ids,
                             LAMBDA id : /\ id \in DOMAIN st.genre
                                         /\ ValueDiffers(st.genre[id], new_value))
        changes == [i \in 1..Len(changed) |->
                      SimfileChange(changed[i], field_name, st.genre[changed[i]], new_value)]
        num_files == Len(simfile_ids)
        description == "Edit Genre for " \o ToString(num_files)
                           \o (IF num_files > 1 THEN " files" ELSE " file")
        command == [description |-> description, changes |-> changes]
    IN  IF field_name # "genre" \/ changes = <<>>
        THEN [st |-> st, returned |-> FALSE, command |-> NoCommand]
        ELSE [st |-> [ApplyChanges(st, changes) EXCEPT
                         !.undo_stack = AddCommand(st.undo_stack, command),
                         !.redo_stack = <<>>],
              returned |-> TRUE, command |-> command]

\* ChangeManager.undo, then SimfileController.undo applies the command it got
Undo(st) ==
    IF st.undo_stack = <<>> THEN [st |-> st, returned |-> FALSE, command |-> NoCommand]
    ELSE LET command == st.undo_stack[Len(st.undo_stack)]
             popped == [st EXCEPT !.undo_stack = SubSeq(@, 1, Len(@) - 1),
                                  !.redo_stack = Append(@, command)]
         IN  [st |-> ApplyChanges(popped, ChangeCommandInvert(command).changes),
              returned |-> TRUE, command |-> ChangeCommandInvert(command)]

\* ChangeManager.redo, then SimfileController.redo applies the command it got
Redo(st) ==
    IF st.redo_stack = <<>> THEN [st |-> st, returned |-> FALSE, command |-> NoCommand]
    ELSE LET command == st.redo_stack[Len(st.redo_stack)]
             popped == [st EXCEPT !.redo_stack = SubSeq(@, 1, Len(@) - 1),
                                  !.undo_stack = Append(@, command)]
         IN  [st |-> ApplyChanges(popped, command.changes),
              returned |-> TRUE, command |-> command]

\* SimfileController.save_changes when every file is written: the modified
\* simfiles become the originals and ChangeManager.clear() empties both stacks
SaveChanges(st) ==
    [st |-> [st EXCEPT !.original = st.genre,
                       !.modified = [id \in DOMAIN st.modified |-> FALSE],
                       !.undo_stack = <<>>, !.redo_stack = <<>>],
     returned |-> TRUE, command |-> NoCommand]

\* SimfileMetadata.is_modified
IsModified(st, id) == st.modified[id]

\* SimfileController.has_unsaved_changes
HasUnsavedChanges(st) == \E id \in DOMAIN st.modified : IsModified(st, id)

\* SimfileController.__init__ and load: given is the controller, outcome the
\* last call with the controller before it
InitUndo ==
    /\ Setup(SomeConfig, LoadCache(NoFile))
    /\ given = [genre |-> LoadedGenres, original |-> LoadedGenres,
                modified |-> [id \in DOMAIN LoadedGenres |-> FALSE],
                undo_stack |-> <<>>, redo_stack |-> <<>>]
    /\ outcome = Nothing
    /\ NoThread

\* what is kept of a call: its name, what it returned, the command it made
\* or handed to the controller, and the controller before it
CallRecord(op, call, st) ==
    [op |-> op, returned |-> call.returned, command |-> call.command, before |-> st]

\* SimfileController.set_field (one id) and set_field_bulk
SetFieldBulkCall ==
    \E simfile_ids \in IdLists, field_name \in FieldNames, new_value \in NewValues :
        LET call == SetFieldBulk(given, simfile_ids, field_name, new_value)
        IN  /\ given' = call.st
            /\ outcome' = CallRecord("set_field_bulk", call, given)
            /\ UNCHANGED <<engine_vars, thread_vars, dialog_vars>>

\* SimfileController.undo
UndoCall ==
    /\ given' = Undo(given).st
    /\ outcome' = CallRecord("undo", Undo(given), given)
    /\ UNCHANGED <<engine_vars, thread_vars, dialog_vars>>

\* SimfileController.redo
RedoCall ==
    /\ given' = Redo(given).st
    /\ outcome' = CallRecord("redo", Redo(given), given)
    /\ UNCHANGED <<engine_vars, thread_vars, dialog_vars>>

\* SimfileController.save_changes
SaveChangesCall ==
    /\ given' = SaveChanges(given).st
    /\ outcome' = CallRecord("save_changes", SaveChanges(given), given)
    /\ UNCHANGED <<engine_vars, thread_vars, dialog_vars>>

NextUndo ==
    \/ SetFieldBulkCall
    \/ UndoCall
    \/ RedoCall
    \/ SaveChangesCall

SpecUndo == InitUndo /\ [][NextUndo]_vars

\* ----------------------------------------------------------------- claims

\* the data structure itself: is there an entry, whatever it holds
HasEntry(c, k, p) == k \in DOMAIN c /\ p \in DOMAIN c[k]

Keys == { CacheKey(q) : q \in Queries }

HasCredential(p) ==
    \/ p = "lastfm" /\ config.lastfm_api_key
    \/ p = "discogs" /\ config.discogs_api_key
    \/ p = "animethemes"

\* the loop of the running call has reached the fallback provider with results in hand
FallbackGated ==
    /\ pc = "loop" /\ idx <= Len(search_order)
    /\ search_order[idx] = "animethemes"
    /\ Len(genres) > 0

C2_ThresholdLaw ==
    [][ (ev'.kind = "fetch" /\ ev'.outcome = "match" /\ ev'.score < SimilarityThreshold)
        => (genres' = genres /\ cache' = cache /\ disk' = disk) ]_vars

C2_Witness ==
    /\ ev.kind = "fetch" /\ ev.outcome = "match"
    /\ ev.score < SimilarityThreshold /\ ev.npaths > 0

\* C3: the result of get_genres holds paths of animethemes only if no other
\* provider contributed a path in that call, for every configured order.
C3_FallbackOrdering ==
    InSeq("animethemes", origin) => \A i \in 1..Len(origin) : origin[i] = "animethemes"

C3_Witness ==
    /\ pc = "returned" /\ InSeq("animethemes", origin)
    /\ Len(config.sources) >= 2 /\ config.sources[1] = "animethemes"
    /\ Len(consulted) >= 2

\* C4: animethemes is last in search_order wherever the configured order has
\* it, and within one call no provider is consulted after it.
C4_FallbackLast ==
    /\ \A i \in 1..Len(search_order) :
         search_order[i] = "animethemes" => i = Len(search_order)
    /\ \A i \in 1..Len(consulted) :
         consulted[i] = "animethemes" => i = Len(consulted)

C4_Witness ==
    /\ Len(consulted) >= 2 /\ consulted[Len(consulted)] = "animethemes"
    /\ config.sources[1] = "animethemes"

\* C5: when the loop reaches animethemes with at least one path already in the
\* result, the provider is not called, its cache entry is not read into the
\* result, and the cache and the cache file stay as they are.
C5_FallbackGating ==
    [][ FallbackGated =>
          /\ ncalls' = ncalls /\ consulted' = consulted
          /\ genres' = genres
          /\ cache' = cache /\ disk' = disk ]_vars

C5_Witness ==
    /\ ev.kind = "skip"
    /\ HasEntry(cache, cache_key, "animethemes")
    /\ Len(cache[cache_key]["animethemes"]) > 0

\* C6: when the cache holds an entry for (key, provider) as the provider is
\* consulted, the empty list included, get_genres appends the cached paths and
\* does not call the provider.
C6_CacheHitSuppressesCall ==
    [][ ( /\ pc = "loop" /\ idx <= Len(search_order)
          /\ ~FallbackGated
          /\ HasEntry(cache, cache_key, search_order[idx]) )
        => /\ ncalls' = ncalls
           /\ pc' = "loop"
           /\ genres' = genres \o cache[cache_key][search_order[idx]]
           /\ cache' = cache ]_vars

C6_Witness ==
    /\ ev.kind = "hit"
    /\ cache[cache_key][ev.p] = <<>>
    /\ ev.p \in searchers

\* saving and loading keeps, for every (key, provider), whether there is an
\* entry and whether the entry is the empty list
RoundTripKeepsEmptiness(c) ==
    LET loaded == LoadCache(SaveCache(c))
    IN  \A k \in Keys, p \in Providers :
          /\ HasEntry(loaded, k, p) = HasEntry(c, k, p)
          /\ HasEntry(c, k, p) => ((loaded[k][p] = <<>>) = (c[k][p] = <<>>))

\* C7: a no-match answer writes the empty list under (key, provider) and adds
\* nothing to the result; an entry holding the empty list is told apart from a
\* missing entry by the cache lookup, also after the cache is saved and loaded.
C7_NegativeCaching ==
    /\ (ev.kind = "fetch" /\ ev.outcome = "none") =>
          /\ HasEntry(cache, cache_key, ev.p)
          /\ cache[cache_key][ev.p] = <<>>
          /\ ~InSeq(ev.p, origin)
    /\ \A k \in Keys, p \in Providers :
          GetFromCache(cache, k, p).hit = HasEntry(cache, k, p)
    /\ RoundTripKeepsEmptiness(cache)

C7_Witness ==
    /\ nstarted > 0 /\ ev.kind = "new"
    /\ \E k \in Keys, p, r \in Providers :
          /\ HasEntry(cache, k, p) /\ cache[k][p] = <<>>
          /\ InSeq(r, search_order) /\ ~HasEntry(cache, k, r)

\* C8 as stated: when a provider raises, no entry is written for it, every
\* provider after it is still consulted, and get_genres returns instead of raising.
C8_ProviderErrorsContained ==
    errored # {} =>
        /\ \A p \in errored : ~HasEntry(cache, cache_key, p)
        /\ pc # "raised"
        /\ pc = "returned" =>
              \A i \in 1..Len(search_order) :
                 \/ InSeq(search_order[i], consulted)
                 \/ search_order[i] = "animethemes" /\ Len(genres) > 0

\* C9 as stated: a provider of the configured order without credential is
\* omitted from search_order, and no get_genres call raises because of it.
C9_MissingCredentialDisabled ==
    \A p \in Providers :
        (InSeq(p, config.sources) /\ ~HasCredential(p)) =>
            /\ ~InSeq(p, search_order)
            /\ ~(pc = "raised" /\ ev.p = p)

\* C10: after a provider raised or matched below the threshold for a key, the
\* (key, provider) entry stays absent, and whenever a later call for that key
\* consults the provider, it calls fetch_track_genres again.
C10_Retryability ==
    /\ \A kp \in retry : ~HasEntry(cache, kp[1], kp[2])
    /\ ev.kind \in {"hit", "keyerror"} => <<cache_key, ev.p>> \notin retry

C10_Witness ==
    /\ ev.kind = "fetch" /\ ev.retried /\ before.called

\* C11 as stated: whenever the loop of get_genres is about to consult a
\* provider, every entry of the in-memory cache is in the cache file.
C11_WriteThrough ==
    InLoop => \A k \in Keys, p \in Providers :
                 HasEntry(cache, k, p) => (disk.exists /\ HasEntry(disk.doc, k, p))

\* C12 as stated: whenever a get_genres call has ended, by returning or by
\* raising, loading the cache file gives the in-memory cache.
C12_PerQueryFlush ==
    pc \in {"returned", "raised"} => LoadCache(disk) = cache

\* position of provider p in search_order
Pos(p) == CHOOSE i \in 1..Len(search_order) : search_order[i] = p

\* the paths provider p gave to the running call: its cache entry if it was consulted
Contribution(p) ==
    IF InSeq(p, consulted) /\ HasEntry(cache, cache_key, p)
    THEN cache[cache_key][p] ELSE <<>>

RECURSIVE Contributions(_)
Contributions(order) ==
    IF order = <<>> THEN <<>>
    ELSE Contribution(Head(order)) \o Contributions(Tail(order))

\* C13: the list of get_genres is, at every point of the call and when it
\* returns, the concatenation in search_order of the paths of the providers
\* consulted so far, and the providers are consulted in search_order.
C13_ConcatenationInSearchOrder ==
    pc # "idle" =>
        /\ genres = Contributions(SubSeq(search_order, 1, idx - 1))
        /\ \A i, j \in 1..Len(consulted) :
              i < j => Pos(consulted[i]) < Pos(consulted[j])
        /\ \A i, j \in 1..Len(origin) :
              i < j => Pos(origin[i]) <= Pos(origin[j])

C13_Witness ==
    /\ pc = "returned" /\ ncalls = 1
    /\ \E i, j \in 1..Len(origin) : origin[i] # origin[j]
    /\ Len(consulted) >= 2

\* C14 as stated: get_genres("", "", None) calls no provider, writes no cache
\* entry, and returns the empty list.
C14_EmptyInput ==
    /\ \A p \in Providers : ~HasEntry(cache, CacheKey(EmptyQuery), p)
    /\ (query = EmptyQuery /\ pc # "idle") =>
          /\ ncalls = 0
          /\ pc = "returned" => genres = <<>>

\* C15: for every cache with at least one key, loading the saved file gives a
\* cache with the same keys, providers, paths in order and tags, and saving
\* that cache gives the document of the first save.
C15_CacheRoundTrip ==
    /\ ev.kind = "load" => cache = given
    /\ Len(outcome) = 2 => (outcome[2] = outcome[1] /\ cache = given)

C15_Witness ==
    /\ Len(outcome) = 2
    /\ \E k \in DOMAIN given :
          /\ \E p \in DOMAIN given[k] : given[k][p] = <<>>
          /\ \E p \in DOMAIN given[k] : given[k][p] = << <<>>, PathPop >>
    /\ \E k \in DOMAIN given : DOMAIN given[k] = {}

FailedSave == {"unwritten", "truncated"}

\* C16: when loading the cache file fails, by an OSError or part-way through
\* rebuilding, the new engine's cache is empty; when a save fails, get_genres
\* does not raise, the in-memory cache changes as with a successful save, and
\* the list of the call is the one a successful save leaves.
C16_CacheIOFailures ==
    [][ /\ ( /\ ev'.kind = "new"
            /\ (ev'.load = "oserror" \/ (disk.exists /\ ~disk.readable)) )
          => cache' = <<>>
        /\ ev'.save \in FailedSave =>
             /\ pc' # "raised"
             /\ ev'.kind = "return" =>
                   /\ pc' = "returned" /\ cache' = cache /\ genres' = genres
                   /\ prev'[query].result = genres
             /\ ev'.kind = "fetch" =>
                   /\ pc' = "loop"
                   /\ Len(genres') = Len(genres) + ev'.npaths
                   /\ SubSeq(genres', 1, Len(genres)) = genres
                   /\ cache' = AddToCache(cache, cache_key,
                                          SubSeq(genres', Len(genres) + 1, Len(genres')),
                                          ev'.p) ]_vars

C16_Witness ==
    /\ ev.kind = "new" /\ nstarted > 0
    /\ disk = Truncated
    /\ cache = <<>>
    /\ retry = {}
    /\ Len(search_order) = 2

\* C17 as stated: a value written under (key, provider) stays as it is for the
\* rest of the search run, whatever get_genres and the dialog's slots do.
C17_CacheEntriesImmutable ==
    [][ \A k \in DOMAIN cache : \A p \in DOMAIN cache[k] :
           HasEntry(cache', k, p) /\ cache'[k][p] = cache[k][p] ]_vars

\* C18 as stated: after on_genre_found has computed the initial selection and
\* built the tree, every path of the delivered list has the tags it had
\* before, in the same order.
C18_PathsNeverMutated ==
    outcome # Nothing => outcome = given

\* the signals emitted so far are progress_update(i+1, total, title) and one
\* result event for row i, song by song, and then at most search_complete
EventOrder ==
    \A i \in 1..Len(events) :
       LET e == events[i]
           r == (i - 1) \div 2
       IN  e.sig # "search_complete" =>
             /\ e.row = r
             /\ r < Len(simfiles)
             /\ i % 2 = 1 => ( /\ e.sig = "progress_update"
                               /\ e.arg = <<r + 1, Len(simfiles), simfiles[r + 1].title>> )
             /\ i % 2 = 0 => ( /\ IsResult(e)
                               /\ e.sig = "genres_found" => Len(e.arg) > 0 )

\* the result event just emitted tells whether the merged list is empty
LastResultFits ==
    (tpc = "top" /\ row > 0) =>
        LET e == events[2 * row]
        IN  /\ (e.sig = "genres_found") = (Len(result) > 0)
            /\ e.sig = "genres_found" => e.arg = result

\* C19 as stated: the songs are processed in input order, each with its
\* progress event and then exactly one result event, and no song ends the run
\* by an error.
C19_BatchEventOrder ==
    /\ EventOrder
    /\ LastResultFits
    /\ tpc # "dead"

\* C20 as stated: cancel() called after song k has completed yields exactly k
\* result events and then search_complete, never a result event of song k+1.
C20_NoEventAfterCancel ==
    cancel_at >= 1 =>
        /\ NumResults(events) <= cancel_at
        /\ tpc = "done" => NumResults(events) = cancel_at

\* C20 as amended: cancel() called after song k has completed yields at most
\* the events of song k+1, the song in work when the flag was set; once run has
\* read the flag as set, it emits search_complete and nothing else.
C20_Cancellation ==
    /\ cancel_at >= 0 =>
          /\ NumResults(events) <= cancel_at + 1
          /\ NumProgress(events) <= cancel_at + 1
    /\ seen >= 0 =>
          /\ cancelled
          /\ Len(events) <= seen + 1
          /\ tpc = "done" => ( /\ Len(events) = seen + 1
                               /\ events[Len(events)].sig = "search_complete" )
          /\ tpc # "done" => Len(events) = seen

C20_Witness ==
    /\ tpc = "done" /\ seen >= 0
    /\ cancel_at >= 1
    /\ NumResults(events) = cancel_at + 1
    /\ NumResults(events) < Len(simfiles)

\* run has left its loop for good: by its last line or by an exception
RunEnded == tpc \in {"done", "dead"}

\* C21 as stated, for a run that has ended: search_complete has been emitted,
\* exactly once, as the last event, whatever get_genres did for each song; and
\* no run emits it twice or before another event.
C21_TerminalCompletion ==
    /\ NumComplete(events) <= 1
    /\ \A i \in 1..Len(events) : events[i].sig = "search_complete" => i = Len(events)
    /\ RunEnded => NumComplete(events) = 1

\* how many searches the first n songs of the batch need
RECURSIVE SearchesNeeded(_)
SearchesNeeded(n) ==
    IF n = 0 THEN 0
    ELSE SearchesNeeded(n - 1) + (IF HasTranslit(simfiles[n]) THEN 2 ELSE 1)

\* C22: a song with a transliterated title or artist gets the paths of the
\* search with the original fields followed by the paths of the search with
\* the transliterated fields (the original where a transliterated one is
\* empty); a song with neither gets exactly one search; the song is reported
\* found iff the concatenation is non-empty.
C22_TwoPhaseLookup ==
    [][ /\ (tpc = "normal" /\ tpc' = "translit") =>
              /\ HasTranslit(simfile)
              /\ query = NormalQuery(simfile)
              /\ Values(cache, result') = genres
              /\ query' = Query(StripCommonSmWords(IF simfile.artisttranslit # ""
                                                   THEN simfile.artisttranslit
                                                   ELSE simfile.artist),
                                StripCommonSmWords(IF simfile.titletranslit # ""
                                                   THEN simfile.titletranslit
                                                   ELSE simfile.title),
                                StripCommonSmWords(IF simfile.subtitletranslit # ""
                                                   THEN simfile.subtitletranslit
                                                   ELSE simfile.subtitle))
        /\ row' = row + 1 =>
              LET e == events'[Len(events')]
              IN  /\ IF HasTranslit(simfile)
                     THEN /\ tpc = "translit"
                          /\ Values(cache, result') = Values(cache, result) \o genres
                     ELSE /\ tpc = "normal"
                          /\ query = NormalQuery(simfile)
                          /\ Values(cache, result') = genres
                  /\ nstarted = SearchesNeeded(row')
                  /\ IsResult(e) /\ e.row = row
                  /\ (e.sig = "genres_found") = (result' # <<>>)
                  /\ e.sig = "genres_found" => e.arg = result' ]_vars

\* a song with a transliterated title was reported found with the paths of
\* both searches, each of which returned some
C22_Witness ==
    /\ tpc = "top" /\ row > 0
    /\ HasTranslit(simfiles[row])
    /\ events[Len(events)].sig = "genres_found"
    /\ events[Len(events)].arg = result
    /\ Len(result) = 2 * Len(genres)
    /\ Len(genres) > 0

\* pick_genre has been called on given
PickDone == outcome # Nothing

IsRegionalPop(genre) == InSeq(genre, RegionalPopGenres)

HasRegionalPop(paths) ==
    \E i \in 1..Len(paths) : \E j \in 1..Len(paths[i]) : IsRegionalPop(paths[i][j])

HasTag(paths, name) == \E i \in 1..Len(paths) : InSeq(name, paths[i])

\* the first path of the list that holds the tag
FirstWith(paths, name) ==
    paths[CHOOSE i \in 1..Len(paths) :
             InSeq(name, paths[i]) /\ \A j \in 1..(i - 1) : ~InSeq(name, paths[j])]

\* C23 as stated: whenever any path of the candidate set contains a
\* regional-pop tag, pick_genre returns a regional-pop tag, wherever that path
\* stands and whatever other paths contain "Pop" or "Dance".
C23_RegionalPopPriority ==
    (PickDone /\ HasRegionalPop(given)) =>
        outcome.raised = NoneStr /\ IsRegionalPop(outcome.genre)

\* C24: when no path contains a regional-pop tag and some path contains
\* "Pop", pick_genre returns "Pop", even when a path with "Dance" or a longer
\* path comes earlier.
C24_PopRule ==
    (PickDone /\ ~HasRegionalPop(given) /\ HasTag(given, "Pop")) =>
        outcome.raised = NoneStr /\ outcome.genre = "Pop"

C24_Witness ==
    /\ PickDone
    /\ given = << <<"Electronic", "Dance", "Synthwave">>, <<"Pop">> >>
    /\ outcome.genre = "Pop"

IndexOf(path, name) ==
    CHOOSE i \in 1..Len(path) : path[i] = name /\ \A j \in 1..(i - 1) : path[j] # name

\* C26 as stated: when the Dance rule decides and its path holds, after
\* "Dance", a tag other than "Uk Garage", the genre returned is a tag placed
\* after "Dance" in that path, never "Dance" or a tag before it.
C26_DanceSubGenre ==
    (PickDone /\ ~HasRegionalPop(given) /\ ~HasTag(given, "Pop") /\ HasTag(given, "Dance")) =>
        LET path == FirstWith(given, "Dance")
            at == IndexOf(path, "Dance")
        IN  (\E j \in (at + 1)..Len(path) : path[j] # "Uk Garage") =>
                \E j \in (at + 1)..Len(path) : path[j] = outcome.genre

\* C27 as stated: when no path contains a regional-pop tag, "Pop" or "Dance",
\* pick_genre returns the last tag of the longest path, the first of the
\* longest on a tie.
C27_LongestPathLeaf ==
    (PickDone /\ given # <<>> /\ ~HasRegionalPop(given) /\ ~HasTag(given, "Pop")
              /\ ~HasTag(given, "Dance")) =>
        LET longest == LongestGenre(given)
        IN  longest # <<>> =>
               outcome.raised = NoneStr /\ outcome.genre = longest[Len(longest)]

\* the places (group, position) of the tags not named "Dance"
Places(groups) ==
    { ij \in (1..Len(groups)) \X (1..3) :
         ij[2] <= Len(groups[ij[1]]) /\ groups[ij[1]][ij[2]].name # "Dance" }

TagAt(groups, ij) == groups[ij[1]][ij[2]]

\* the depth of a place counted from the leaf of its path, the leaf being 1
DepthFromLeaf(groups, ij) == Len(groups[ij[1]]) - ij[2] + 1

\* the same depth, tags named "Dance" not counted
DepthSkippingDance(groups, ij) ==
    Cardinality({ j \in ij[2]..Len(groups[ij[1]]) : groups[ij[1]][j].name # "Dance" })

\* the places of the highest score among places
TopScore(groups, places) ==
    { ij \in places : \A kl \in places : TagAt(groups, kl).score <= TagAt(groups, ij).score }

CandidateItems(items) == SelectSeq(items, LAMBDA item : item[2] # NoneStr)

\* the values of the items of the first level of the tree
FirstLevel(items) == { items[i][2] : i \in { j \in 1..Len(items) : items[j][1] = items[j][2] } }

\* C29 as stated, for the genres_found event handled last: the paths of the
\* delivered list were inserted leaf first, so the first level of the
\* dropdown's tree holds exactly their leaf tags and the flattened list is the
\* one of the tree of the leaf-first paths, also when the same path object
\* occurs twice in the list.
C29_LeafFirstTree ==
    (handled > 0 /\ events[handled].sig = "genres_found") =>
        LET items == CandidateItems(combo[events[handled].row].items)
            leaf_first == [i \in 1..Len(given) |-> Reverse(Names(given[i]))]
        IN  /\ FirstLevel(items) = { Names(given[i])[Len(given[i])] : i \in 1..Len(given) }
            /\ items = FlattenTreeForDisplay(leaf_first)

\* the places of the themes that have artists
WithArtists(themes) == { i \in 1..Len(themes) : themes[i].has_artists }

\* the same themes listed in another order: perm[i] is the old place of the
\* theme now at place i
Reordered(themes, perm) == [i \in 1..Len(themes) |-> themes[perm[i]]]

Orders(n) == { perm \in [1..n -> 1..n] : \A i, j \in 1..n : perm[i] = perm[j] => i = j }

\* C30: the theme returned has the highest artist score of the themes that have
\* artists; listing the themes in another order returns a theme of the same
\* score; of themes with the same highest score the first listed is returned;
\* None is returned when no theme has artists or every score is 0 or less.
C30_BestThemeByScore ==
    outcome # Nothing =>
        LET scored == WithArtists(given)
            best == outcome.best_match
        IN  IF \A i \in scored : given[i].score <= 0
            THEN best = NoTheme
            ELSE /\ best \in scored
                 /\ \A i \in scored : given[i].score <= given[best].score
                 /\ \A i \in scored : given[i].score = given[best].score => best <= i
                 /\ \A perm \in Orders(Len(given)) :
                       LET other == GetBestMatchingThemeArtists(Reordered(given, perm))
                       IN  /\ other # NoTheme
                           /\ Reordered(given, perm)[other].score = given[best].score

\* the best score is held by two themes, listed after a theme of a lower
\* score: the first of the two is returned
C30_Witness ==
    /\ outcome # Nothing
    /\ given = <<Theme(TRUE, 1), Theme(TRUE, 2), Theme(TRUE, 2)>>
    /\ outcome.best_match = 2

\* the same query: equal artist and title, equal subtitle with None read as ""
SameTriple(q1, q2) ==
    /\ q1.artist = q2.artist
    /\ q1.title = q2.title
    /\ OrEmpty(q1.subtitle) = OrEmpty(q2.subtitle)

\* C31 as stated: a cache entry read for a triple was written by a call for
\* the same triple (None and "" being the same subtitle), never by a call for
\* a triple that differs in artist, title or non-empty subtitle.
C31_NoCrossQuerySharing ==
    ev.kind = "hit" =>
        \E q \in AllQueries : prev[q].called /\ SameTriple(q, query)

\* C32 as stated: every provider whose cache entry is read or whose
\* fetch_track_genres is called during get_genres is one of the sources the
\* caller configured, also when the caller configured none.
C32_OnlyConfiguredConsulted ==
    \A i \in 1..Len(consulted) : InSeq(consulted[i], config.sources)

\* C33: for a non-empty list of non-empty paths pick_genre returns, without
\* raising, a tag that is an element of one of the input paths.
C33_PickTotalAndSelective ==
    (PickDone /\ given # <<>> /\ \A i \in 1..Len(given) : given[i] # <<>>) =>
        /\ outcome.raised = NoneStr
        /\ HasTag(given, outcome.genre)

\* a call on valid input that the fallback decided, after the two loops found
\* nothing
C33_Witness ==
    /\ PickDone
    /\ given = << <<"Rock">>, <<"Electronic", "Synthwave">> >>
    /\ outcome.raised = NoneStr
    /\ outcome.genre = "Electronic"

\* a search thread exists and has not left run
ThreadRunning == tpc \notin {"none", "done", "dead"}

\* C34 as stated: Apply is enabled only when a search has completed and no
\* search thread is running; Search is never enabled while a search thread is
\* running; Cancel raises no error, in whatever state it is pressed.
C34_DialogStateMachine ==
    /\ dialog.apply_enabled => (NumComplete(events) >= 1 /\ ~ThreadRunning)
    /\ dialog.search_enabled => ~ThreadRunning
    /\ outcome # "AttributeError"

\* the undo stack of a controller
UndoStack(st) == st.undo_stack

\* C35: the undo stack never holds more than max_history commands, the two
\* stacks together neither; when set_field_bulk adds a command to a full undo
\* stack, the oldest command is dropped and the others stay in order, the new
\* one last.
C35_BoundedHistory ==
    outcome # Nothing =>
        /\ Len(given.undo_stack) <= MaxHistory
        /\ Len(given.undo_stack) + Len(given.redo_stack) <= MaxHistory
        /\ (outcome.op = "set_field_bulk" /\ outcome.returned) =>
              LET was == UndoStack(outcome.before)
              IN  /\ given.redo_stack = <<>>
                  /\ given.undo_stack =
                        IF Len(was) = MaxHistory
                        THEN SubSeq(was, 2, Len(was)) \o <<outcome.command>>
                        ELSE was \o <<outcome.command>>

\* a command was added to a full undo stack
C35_Witness ==
    /\ outcome # Nothing
    /\ outcome.op = "set_field_bulk" /\ outcome.returned
    /\ Len(outcome.before.undo_stack) = MaxHistory
    /\ Len(given.undo_stack) = MaxHistory
    /\ given.undo_stack[1] = outcome.before.undo_stack[2]

\* C36: undo() followed by redo() leaves both stacks as they were and redo()
\* returns the original command; the command undo() returns has the original
\* changes in reverse order with old_value and new_value swapped; undo() on an
\* empty undo stack and redo() on an empty redo stack return None and change
\* neither stack.
C36_UndoRedoRoundTrip ==
    outcome # Nothing =>
        LET undone == Undo(given)
            redone == Redo(undone.st)
            original == given.undo_stack[Len(given.undo_stack)]
        IN  /\ given.undo_stack # <<>> =>
                 /\ redone.st.undo_stack = given.undo_stack
                 /\ redone.st.redo_stack = given.redo_stack
                 /\ redone.command = original
                 /\ Len(undone.command.changes) = Len(original.changes)
                 /\ \A i \in 1..Len(original.changes) :
                       LET back == undone.command.changes[Len(original.changes) + 1 - i]
                       IN  /\ back.simfile_id = original.changes[i].simfile_id
                           /\ back.field_name = original.changes[i].field_name
                           /\ back.old_value = original.changes[i].new_value
                           /\ back.new_value = original.changes[i].old_value
            /\ given.undo_stack = <<>> =>
                 /\ undone.command = NoCommand
                 /\ undone.st.undo_stack = <<>> /\ undone.st.redo_stack = given.redo_stack
            /\ given.redo_stack = <<>> =>
                 /\ Redo(given).command = NoCommand
                 /\ Redo(given).st.redo_stack = <<>>
                 /\ Redo(given).st.undo_stack = given.undo_stack
            /\ (outcome.op = "redo" /\ outcome.returned) =>
                 outcome.command = given.undo_stack[Len(given.undo_stack)]
            /\ (outcome.op = "undo" /\ outcome.returned) =>
                 /\ Redo(given).st.undo_stack = outcome.before.undo_stack
                 /\ Redo(given).st.redo_stack = outcome.before.redo_stack

\* a command of two changes has been undone
C36_Witness ==
    /\ outcome # Nothing
    /\ outcome.op = "undo" /\ outcome.returned
    /\ Len(outcome.command.changes) = 2
    /\ outcome.command.changes[1].simfile_id # outcome.command.changes[2].simfile_id
    /\ given.redo_stack # <<>>

\* C37 as stated: a simfile is reported as modified exactly when its field
\* differs from the original value; after an edit and its undo it is not
\* reported, and has_unsaved_changes() does not count it.
C37_ModifiedIffDiffers ==
    outcome # Nothing =>
        /\ \A id \in DOMAIN given.genre :
              IsModified(given, id) = (given.genre[id] # given.original[id])
        /\ HasUnsavedChanges(given) = (\E id \in DOMAIN given.genre :
                                          given.genre[id] # given.original[id])

\* C38: a set_field_bulk that changes a simfile pushes one command, and one
\* undo() then gives every simfile it changed the value it had before, also
\* for an id list with the same id twice; for an unknown field or when no value
\* would change it returns False and leaves simfiles and stacks as they were.
C38_BulkEditOneUndoStep ==
    (outcome # Nothing /\ outcome.op = "set_field_bulk") =>
        LET was == outcome.before
        IN  IF outcome.returned
            THEN /\ given.genre # was.genre
                 /\ Len(given.undo_stack) = (IF Len(was.undo_stack) = MaxHistory
                                             THEN MaxHistory ELSE Len(was.undo_stack) + 1)
                 /\ given.undo_stack[Len(given.undo_stack)] = outcome.command
                 /\ Undo(given).st.genre = was.genre
                 /\ Undo(given).st.undo_stack = SubSeq(given.undo_stack, 1,
                                                       Len(given.undo_stack) - 1)
            ELSE given = was

\* the same id twice in the list, and the edit changed that simfile
C38_Witness ==
    /\ outcome # Nothing
    /\ outcome.op = "set_field_bulk" /\ outcome.returned
    /\ Len(outcome.command.changes) = 2
    /\ outcome.command.changes[1].simfile_id = outcome.command.changes[2].simfile_id
    /\ given.genre # outcome.before.genre

====
